---- MODULE Spec2Model ----
(***************************************************************************)
(* State-machine model of the missilery scraper:                           *)
(*   - the JSON -> database importer (missilery_db/import_json_to_db.py)   *)
(*     on top of the SQLAlchemy session it uses (autoflush off, one        *)
(*     commit per batch, SQLite row ids),                                  *)
(*   - the listing crawl of the spider (spiders/missile_spider.py).        *)
(***************************************************************************)
EXTENDS Integers, Sequences, FiniteSets, Bags, TLC

VARIABLES
    db,           \* committed content of the SQLite database
    sess,         \* the importer's Session: tx (rows visible to SQL), mem, pend, poisoned
    stats,        \* JSONToDatabaseImporter.stats
    update_mode,  \* JSONToDatabaseImporter.update_mode
    pc,           \* where the import process is
    idx,          \* records of the current batch already handled
    runs,         \* batches (import_* calls) started so far
    basic_data,   \* import_detailed_missiles: the lookup built from the basic file
    hist,         \* the records of the current or last batch, with what happened (history)
    okLocators,   \* locators of records that were imported without error and committed (history)
    resolved,     \* <<kind, name, id>> of every dimension resolution that returned (history)
    replay,       \* when the batch imports the files of the previous one again: those files
    files,        \* main(): which of the three required paths exist; NoFiles outside main
    exit_status,  \* exit status of the last import process, <<>> while none has ended
    \* ---- MissileSpider and the requests it has scheduled
    discovered_pages,
    processed_pages,
    max_page,         \* <<>> for None
    last_page_found,
    pending,          \* listing requests scheduled and not yet answered
    gens,             \* parse() generators that are being iterated
    requested,        \* listing locators a request was made for (history)
    dupRequested,     \* listing locators requested more than once (history)
    rereported,       \* locators met again when already discovered or processed (history)
    pageNumbers,      \* <<locator, page_number>> of every page parsed (history)
    firstControl,     \* ordinals in the pagination control of the first page parsed (history)
    basic_items,      \* DataSeparationPipeline.basic_data
    detail_seen,      \* the duplicate filter: detail locators a request was let through for
    detail_pending,   \* bag of the detail requests scheduled and not yet answered
    detail_fetches,   \* bag of the detail locators fetched (history)
    body_writes,      \* bag of the body files written: name, path, file name (history)
    detailed_items,   \* DataSeparationPipeline.detailed_data
    \* ---- the files the pipeline writes, and the crawl processes
    basic_file,       \* data/missiles_basic.json: <<>> while absent, else <<its records>>
    detailed_file,    \* data/missiles_detailed.json, likewise
    spider_open,      \* FALSE once close_spider has run
    crawls            \* crawl processes started so far

importVars == <<db, sess, stats, update_mode, pc, idx, runs, basic_data, hist, okLocators,
                resolved, replay, files, exit_status>>
crawlVars == <<discovered_pages, processed_pages, max_page, last_page_found, pending, gens,
               requested, dupRequested, rereported, pageNumbers, firstControl,
               basic_items, detail_seen, detail_pending, detail_fetches, body_writes,
               detailed_items, basic_file, detailed_file, spider_open, crawls>>
fileVars == <<basic_file, detailed_file, spider_open, crawls>>
vars == <<importVars, crawlVars>>

-----------------------------------------------------------------------------
(* Bounds *)
MaxBatch == 2
MaxRuns == 2
MaxOrd == 2        \* the site serves the listing pages ?page=0 .. ?page=MaxOrd
MaxLinks == 2      \* page= links on one listing page
MaxInFlight == 2   \* responses being parsed at the same time

\* datetime.utcnow(), at the resolution of one batch
clock == runs

(* Python None for a string-valued or object-valued JSON member *)
Null == "null"

(* Optional integers: <<>> is None, <<n>> is n *)
NoInt == <<>>
Some(n) == <<n>>

-----------------------------------------------------------------------------
(* Tables *)

\* the five dimension tables, in the order import_* resolves them
KindSeq == <<"countries", "purposes", "base_types", "warhead_types", "guidance_systems">>
KindSet == {KindSeq[i] : i \in 1..Len(KindSeq)}

StatTables == KindSet \cup {"missiles", "detailed_data", "structured_content",
                            "characteristics", "images"}

ZeroStats == [created |-> [t \in StatTables |-> 0],
              updated |-> [t \in StatTables |-> 0],
              errors  |-> 0]

\* A dimension row is its name, at the position of its id; a missile row sits at the
\* position of its id (neither kind of row is ever deleted, and SQLite gives a new
\* row the id max(id)+1).
EmptyStore == [schema   |-> FALSE,
               dims     |-> [k \in KindSet |-> <<>>],
               missiles |-> <<>>,
               detailed |-> <<>>,
               sc       |-> <<>>,
               links    |-> <<>>,
               chars    |-> <<>>,
               images   |-> <<>>,
               sessions |-> <<>>]

EmptyPend == [links |-> <<>>, chars |-> <<>>, images |-> <<>>]

NewSession(store) == [tx |-> store, mem |-> store.missiles, pend |-> EmptyPend,
                      poisoned |-> FALSE]

\* Query.first(): the row with the least id among those selected, 0 for None
FirstOf(S) == IF S = {} THEN 0 ELSE CHOOSE i \in S : \A j \in S : i <= j

Truthy(v) == v # Null /\ v # ""

Max(a, b) == IF a >= b THEN a ELSE b
Min(a, b) == IF a <= b THEN a ELSE b

RECURSIVE MaxId(_)
MaxId(rows) == IF rows = <<>> THEN 0 ELSE Max(Head(rows).id, MaxId(Tail(rows)))

-----------------------------------------------------------------------------
(* The Session.  A handler threads a record st through its statements:         *)
(*   tx, mem, pend, poisoned : the session;  stats : the counters;             *)
(*   exc : an exception is propagating;  ret, action : the last call's result; *)
(*   res : the dimension resolutions that returned (history);                  *)
(*   upsert : the action of the missile upsert of this record (history)        *)

Enter(s, c) == [tx |-> s.tx, mem |-> s.mem, pend |-> s.pend, poisoned |-> s.poisoned,
                stats |-> c, exc |-> FALSE, ret |-> 0, action |-> "none", res |-> {},
                upsert |-> "none"]

SessOf(st) == [tx |-> st.tx, mem |-> st.mem, pend |-> st.pend, poisoned |-> st.poisoned]

Raise(st) == [st EXCEPT !.exc = TRUE]

\* UPDATE statements of a flush, one per dirty missile in id order; SQLite checks
\* UNIQUE(detail_page_url) and NOT NULL per statement.
MissileRowOk(rows, i, row) ==
    /\ row.name # Null /\ row.url # Null /\ row.index_url # Null /\ row.page # NoInt
    /\ \A j \in 1..Len(rows) : j # i => rows[j].url # row.url

RECURSIVE UpdateRows(_, _, _)
UpdateRows(rows, mem, i) ==
    IF i > Len(rows) THEN [ok |-> TRUE, rows |-> rows]
    ELSE IF mem[i] = rows[i] THEN UpdateRows(rows, mem, i + 1)
    ELSE IF ~MissileRowOk(rows, i, mem[i]) THEN [ok |-> FALSE, rows |-> rows]
    ELSE UpdateRows([rows EXCEPT ![i] = mem[i]], mem, i + 1)

NoInsert == [table |-> "none"]

PendOk(p) ==
    /\ \A i \in 1..Len(p.chars)  : p.chars[i].name # Null /\ p.chars[i].value # Null
    /\ \A i \in 1..Len(p.images) : p.images[i].url # Null
    /\ \A i \in 1..Len(p.links)  : p.links[i].url # Null

InsertOk(tx, ins) ==
    CASE ins.table = "missiles" -> MissileRowOk(tx.missiles, 0, ins.row)
      [] ins.table = "detailed" -> \A i \in 1..Len(tx.detailed) :
                                       tx.detailed[i].missile_id # ins.row.missile_id
      [] OTHER -> TRUE

Inserted(tx, ins) ==
    CASE ins.table = "dims"     -> [tx EXCEPT !.dims[ins.kind] = Append(@, ins.row)]
      [] ins.table = "missiles" -> [tx EXCEPT !.missiles = Append(@, ins.row)]
      [] ins.table = "detailed" -> [tx EXCEPT !.detailed = Append(@, ins.row)]
      [] ins.table = "sc"       -> [tx EXCEPT !.sc = Append(@, ins.row)]
      [] ins.table = "sessions" -> [tx EXCEPT !.sessions = Append(@, ins.row)]
      [] OTHER -> tx

\* Session.flush() after session.add(ins): every pending object and every dirty
\* attribute is written.  A failing statement rolls the whole transaction back and
\* leaves the session unusable until Session.rollback(), which the importer never calls.
Flush(st, ins) ==
    IF st.poisoned THEN Raise(st)
    ELSE LET upd == UpdateRows(st.tx.missiles, st.mem, 1)
             tx1 == [st.tx EXCEPT !.missiles = upd.rows]
         IN  IF upd.ok /\ InsertOk(tx1, ins) /\ PendOk(st.pend)
             THEN LET tx2 == Inserted(tx1, ins)
                      tx3 == [tx2 EXCEPT !.links  = @ \o st.pend.links,
                                         !.chars  = @ \o st.pend.chars,
                                         !.images = @ \o st.pend.images]
                  IN  [st EXCEPT !.tx = tx3, !.mem = tx3.missiles, !.pend = EmptyPend]
             ELSE [st EXCEPT !.tx = db, !.mem = db.missiles, !.pend = EmptyPend,
                             !.poisoned = TRUE, !.exc = TRUE]

-----------------------------------------------------------------------------
(* JSONToDatabaseImporter *)

\* get_or_create_or_update(<dimension class>, name=n)
GetOrCreateOrUpdateDim(st, k, n) ==
    IF st.poisoned THEN Raise(st)
    ELSE LET i == FirstOf({j \in 1..Len(st.tx.dims[k]) : st.tx.dims[k][j] = n})
         IN  IF i > 0
             THEN [st EXCEPT !.ret = i, !.res = @ \cup {<<k, n, i>>},
                             !.action = IF update_mode THEN "updated" ELSE "existing"]
             ELSE LET f == Flush(st, [table |-> "dims", kind |-> k, row |-> n])
                  IN  IF f.exc THEN f
                      ELSE [f EXCEPT !.ret = Len(f.tx.dims[k]), !.action = "created",
                                     !.res = @ \cup {<<k, n, Len(f.tx.dims[k])>>}]

Counted(st, t) ==
    CASE st.action = "created" -> [st EXCEPT !.stats.created[t] = @ + 1]
      [] st.action = "updated" -> [st EXCEPT !.stats.updated[t] = @ + 1]
      [] OTHER -> st

\* the five "Create or get related entities" blocks of import_basic_missiles and
\* import_detailed_missiles; ids collects the foreign keys
RECURSIVE ResolveDims(_, _, _, _)
ResolveDims(st, names, ids, i) ==
    IF i > Len(KindSeq) THEN [st |-> st, ids |-> ids]
    ELSE LET k == KindSeq[i]
         IN  IF ~Truthy(names[k]) THEN ResolveDims(st, names, ids, i + 1)
             ELSE LET g == GetOrCreateOrUpdateDim(st, k, names[k])
                  IN  IF g.exc THEN [st |-> g, ids |-> ids]
                      ELSE ResolveDims(Counted(g, k), names,
                                       [ids EXCEPT ![k] = g.ret], i + 1)

NoDims == [k \in KindSet |-> 0]

\* get_or_create_or_update(Missile, **kw): Missile has a name attribute, so the
\* hasattr(model_class, 'name') arm is the one taken
MissileLookup(rows, kw) ==
    FirstOf({j \in 1..Len(rows) : kw.name # Null /\ rows[j].name = kw.name})

GetOrCreateOrUpdateMissile(st, kw) ==
    IF st.poisoned THEN Raise(st)
    ELSE LET i == MissileLookup(st.tx.missiles, kw)
         IN  IF i > 0
             THEN IF update_mode
                  THEN [st EXCEPT !.mem[i] = kw, !.ret = i, !.action = "updated",
                                  !.upsert = "updated"]
                  ELSE [st EXCEPT !.ret = i, !.action = "existing", !.upsert = "existing"]
             ELSE LET f == Flush(st, [table |-> "missiles", row |-> kw])
                  IN  IF f.exc THEN f
                      ELSE [f EXCEPT !.ret = Len(f.tx.missiles), !.action = "created",
                                     !.upsert = "created"]

\* the statistics update that follows a get_or_create_or_update call that returned
CountedIfOk(st, t) == IF st.exc THEN st ELSE Counted(st, t)

\* except Exception: ... self.stats['errors'] += 1; continue
Absorb(st) == IF st.exc THEN [st EXCEPT !.exc = FALSE, !.stats.errors = @ + 1] ELSE st

\* clear_missile_data(detail_page_url): bulk DELETEs run as SQL at once and see only
\* flushed rows; the two attribute assignments wait for the next flush
ByUrl(rows, url) == FirstOf({j \in 1..Len(rows) : rows[j].url = url})

\* clear_missile_data without its update_mode test
ClearMissileDataAnyMode(st, url) ==
    IF st.poisoned THEN Raise(st)
    ELSE LET i == ByUrl(st.tx.missiles, url)
         IN  IF i = 0 THEN st
             ELSE [st EXCEPT
                     !.tx.detailed = SelectSeq(@, LAMBDA x : x.missile_id # i),
                     !.tx.sc       = SelectSeq(@, LAMBDA x : x.missile_id # i),
                     !.tx.chars    = SelectSeq(@, LAMBDA x : x.missile_id # i),
                     !.tx.images   = SelectSeq(@, LAMBDA x : x.missile_id # i),
                     !.mem[i].is_detailed = TRUE,
                     !.mem[i].scraped_at = clock]

ClearMissileData(st, url) ==
    IF ~update_mode THEN st
    ELSE IF st.poisoned THEN Raise(st)
    ELSE LET i == ByUrl(st.tx.missiles, url)
         IN  IF i = 0 THEN st
             ELSE [st EXCEPT
                     !.tx.detailed = SelectSeq(@, LAMBDA x : x.missile_id # i),
                     !.tx.sc       = SelectSeq(@, LAMBDA x : x.missile_id # i),
                     !.tx.chars    = SelectSeq(@, LAMBDA x : x.missile_id # i),
                     !.tx.images   = SelectSeq(@, LAMBDA x : x.missile_id # i),
                     !.mem[i].is_detailed = TRUE,
                     !.mem[i].scraped_at = clock]

\* the loop body of import_basic_missiles for one record r of the file
BasicKw(r, ids) ==
    [name |-> r.name, url |-> r.url, index_url |-> r.index_url, page |-> r.page,
     range_km |-> r.range_km, year |-> r.year, descr |-> r.descr, dim |-> ids,
     is_detailed |-> FALSE, scraped_at |-> clock]

ImportBasicRecord(st, r) ==
    LET d == ResolveDims(st, r.dim, NoDims, 1)
    IN  Absorb(IF d.st.exc THEN d.st
               ELSE IF ~r.haskeys THEN Raise(d.st)
               ELSE CountedIfOk(GetOrCreateOrUpdateMissile(d.st, BasicKw(r, d.ids)),
                                "missiles"))

\* import_structured_content(missile_id, structured_content): one try per field
MAX_LINK_TEXT_LENGTH == 200

RECURSIVE AddLinks(_, _, _, _)
AddLinks(st, scid, f, i) ==
    IF i > Len(f.links) THEN st
    ELSE AddLinks([st EXCEPT !.pend.links = Append(@,
                       [sc_id |-> scid, url |-> f.links[i],
                        text_len |-> Min(f.text_len, MAX_LINK_TEXT_LENGTH)])],
                  scid, f, i + 1)

StructuredField(st, mid, f) ==
    IF ~f.ok THEN Absorb(Raise(st))
    ELSE LET row == [id |-> MaxId(st.tx.sc) + 1, missile_id |-> mid,
                     field_name |-> f.name, text_len |-> f.text_len]
             fl  == Flush(st, [table |-> "sc", row |-> row])
         IN  IF fl.exc THEN Absorb(fl)
             ELSE AddLinks([fl EXCEPT !.stats.created["structured_content"] = @ + 1],
                           row.id, f, 1)

RECURSIVE ImportStructuredContent(_, _, _, _)
ImportStructuredContent(st, mid, fields, i) ==
    IF i > Len(fields) THEN st
    ELSE ImportStructuredContent(StructuredField(st, mid, fields[i]), mid, fields, i + 1)

\* import_characteristics(missile_id, characteristics_table): add without flush
RECURSIVE ImportCharacteristics(_, _, _, _)
ImportCharacteristics(st, mid, table, i) ==
    IF i > Len(table) THEN st
    ELSE LET c == table[i]
             s == IF ~c.ok THEN Absorb(Raise(st))
                  ELSE [st EXCEPT
                          !.pend.chars = Append(@, [missile_id |-> mid, name |-> c.name,
                                                    value |-> c.value]),
                          !.stats.created["characteristics"] = @ + 1]
         IN  ImportCharacteristics(s, mid, table, i + 1)

\* an import_images that adds no row
ImportImagesNone(st, mid, urls, type, i) == st

\* import_images(missile_id, image_urls, image_type): add without flush
RECURSIVE ImportImages(_, _, _, _, _)
ImportImages(st, mid, urls, type, i) ==
    IF i > Len(urls) THEN st
    ELSE ImportImages([st EXCEPT
                          !.pend.images = Append(@, [missile_id |-> mid, url |-> urls[i],
                                                     type |-> type]),
                          !.stats.created["images"] = @ + 1],
                      mid, urls, type, i + 1)

\* lines 286-319 of import_detailed_missiles: the body file and the child rows
ImportChildren(st, mid, e) ==
    IF e.body.file = "missing" THEN st                     \* warning, continue
    ELSE IF e.body.file = "badjson" THEN Raise(st)         \* json.load raises
    ELSE IF ~e.scraped_ok THEN Raise(st)                   \* fromisoformat raises
    ELSE LET fl == Flush(st, [table |-> "detailed",
                              row |-> [missile_id |-> mid, filename |-> e.filename,
                                       scraped_at |-> clock]])
         IN  IF fl.exc THEN fl
             ELSE LET s1 == [fl EXCEPT !.stats.created["detailed_data"] = @ + 1]
                  IN  IF ~e.body.sc.ok THEN Raise(s1)
                      ELSE LET s2 == ImportStructuredContent(s1, mid, e.body.sc.items, 1)
                           IN  IF ~e.body.chars.ok THEN Raise(s2)
                               ELSE LET s3 == ImportCharacteristics(s2, mid,
                                                                    e.body.chars.items, 1)
                                        s4 == ImportImages(s3, mid, e.body.image_urls,
                                                           "main", 1)
                                    IN  ImportImages(s4, mid, e.body.gallery_images,
                                                     "gallery", 1)

\* the Missile(...) keywords of import_detailed_missiles, info being
\* basic_data.get(detail_page_url, {})
DetailedKw(e, info, ids) ==
    [name |-> e.name, url |-> e.url, index_url |-> e.index_url, page |-> e.page,
     range_km |-> info.range_km, year |-> info.year, descr |-> info.descr, dim |-> ids,
     is_detailed |-> TRUE, scraped_at |-> clock]

\* the loop body of import_detailed_missiles for one index entry e
ImportDetailedRecord(st, e, info) ==
    LET c == ClearMissileData(st, e.url)
    IN  Absorb(
          IF c.exc THEN c
          ELSE IF c.poisoned THEN Raise(c)
          ELSE LET m == ByUrl(c.tx.missiles, e.url)
               IN  IF m > 0 THEN ImportChildren(c, m, e)
                   ELSE LET d == ResolveDims(c, info.dim, NoDims, 1)
                        IN  IF d.st.exc THEN d.st
                            ELSE LET g == GetOrCreateOrUpdateMissile(
                                              d.st, DetailedKw(e, info, d.ids))
                                 IN  IF g.exc THEN g
                                     ELSE ImportChildren(Counted(g, "missiles"), g.ret, e))

\* self.session.commit() at the end of a batch, outside every try
Commit(st) == Flush(st, NoInsert)

-----------------------------------------------------------------------------
(* Inputs: the records of the intermediate JSON files *)

Names == {"X-1", "Y-2"}
Urls  == {"/m/x1", "/m/x2"}

NoDimNames == [k \in KindSet |-> Null]

\* what the listing card of a detail page shows besides the name
RangeOf(u) == IF u = "/m/x1" THEN Some(500) ELSE NoInt
DimsOf(u) == IF u = "/m/x1" THEN [NoDimNames EXCEPT !["countries"] = "A"]
             ELSE [NoDimNames EXCEPT !["countries"] = "B", !["purposes"] = "A"]

BasicRecord(n, u, hk) ==
    [name |-> n, url |-> u, index_url |-> "/p/1", page |-> Some(1),
     range_km |-> RangeOf(u), year |-> NoInt, descr |-> "", dim |-> DimsOf(u),
     haskeys |-> hk]

\* records of missiles_basic.json; haskeys = FALSE: a required key is absent
BasicRecords ==
    {BasicRecord(n, u, TRUE) : n \in Names \cup {Null}, u \in Urls}
        \cup {BasicRecord("X-1", "/m/x2", FALSE)}

\* basic_data.get(url, {}) when the url is not a key: every .get() gives None
NoInfo == [range_km |-> NoInt, year |-> NoInt, descr |-> "", dim |-> NoDimNames]
InfoOf(u) == [range_km |-> RangeOf(u), year |-> NoInt, descr |-> "", dim |-> DimsOf(u)]

\* the lookup built from a basic file that has a record for every locator (the
\* spider emits the basic record of a card before it asks for the detail page)
BasicData == [u \in Urls |-> InfoOf(u)]

Field(n, links) == [ok |-> TRUE, name |-> n, text_len |-> 250, links |-> links]
BadField == [ok |-> FALSE, name |-> "bad", text_len |-> 0, links |-> <<>>]
Char(n, v) == [ok |-> TRUE, name |-> n, value |-> v]
BadChar == [ok |-> FALSE, name |-> Null, value |-> Null]
Coll(items) == [ok |-> TRUE, items |-> items]
NotIterable == [ok |-> FALSE, items |-> <<>>]

Body(sc, chars, imgs, gal) ==
    [file |-> "ok", sc |-> sc, chars |-> chars, image_urls |-> imgs,
     gallery_images |-> gal]
NoBody(why) ==
    [file |-> why, sc |-> Coll(<<>>), chars |-> Coll(<<>>), image_urls |-> <<>>,
     gallery_images |-> <<>>]

\* C8's DetailRecord: two characteristics and one image
BodyTwoOne == Body(Coll(<<Field("range", <<"/l/1">>)>>),
                   Coll(<<Char("mass", "1"), Char("len", "2")>>), <<"/i/1">>, <<>>)
BodyOther == Body(Coll(<<Field("speed", <<>>), Field("range", <<"/l/2">>)>>),
                  Coll(<<Char("mass", "3")>>), <<>>, <<"/g/1">>)
\* characteristics_table is not a list: the for statement raises
BodyBadTable == Body(Coll(<<Field("range", <<"/l/1">>)>>), NotIterable, <<"/i/1">>, <<>>)
\* a field and a table row that are not objects
BodyBadItems == Body(Coll(<<BadField, Field("range", <<>>)>>),
                     Coll(<<BadChar, Char("mass", "1")>>), <<>>, <<>>)
\* "field_value": null
BodyNullValue == Body(Coll(<<>>), Coll(<<Char("mass", Null)>>), <<>>, <<>>)

Bodies == {NoBody("missing"), NoBody("badjson"), BodyTwoOne, BodyOther, BodyBadTable,
           BodyBadItems, BodyNullValue}

Entry(n, u, b, sok) ==
    [name |-> n, url |-> u, index_url |-> "/p/1", page |-> Some(1),
     filename |-> "f.json", scraped_ok |-> sok, body |-> b]

\* the name the detail page of a locator shows
NameOf(u) == IF u = "/m/x1" THEN "X-1" ELSE "Y-2"

\* entries of missiles_detailed.json with the body file each one names; one entry
\* whose page shows the name of the other missile, one whose scraped_at is not a date
Entries ==
    {Entry(NameOf(u), u, b, TRUE) : u \in Urls, b \in Bodies}
        \cup {Entry("X-1", "/m/x2", BodyTwoOne, TRUE), Entry("X-1", "/m/x1", BodyTwoOne, FALSE)}

-----------------------------------------------------------------------------
(* MissileSpider: the listing crawl.  A listing locator is the start URL
   (page = -1: the URL has no page= parameter) or the URL with ?page=N. *)

MAX_PAGE_DISCOVERY_LIMIT == 50

Loc(p) == [page |-> p]
\* START_URLS[0]
Start == Loc(-1)

\* the site answers the start URL and ?page=0 .. ?page=MaxOrd; a request for any
\* other page fails in the downloader and never reaches parse.  The generated
\* requests for such pages follow one another in the 0..max_page loop and touch
\* only locators that no page links to: a run of them is taken as one step.
Served(l) == l.page <= MaxOrd

\* hrefs a listing page can carry inside ul.pagination, after urljoin
ControlHrefs == {Start} \cup {Loc(p) : p \in 0..MaxOrd}
\* a[href*="page="] outside the pagination control
OtherHrefs == {Loc(MaxOrd)}

\* what ::text.get() gives for the heading link: None when the link has no text
\* node, else the characters of the first one
NoText == [none |-> TRUE, chars |-> <<>>]
Text(chars) == [none |-> FALSE, chars |-> chars]
Card(t, h) == [text |-> t, href |-> h]

\* the cards the site shows on each listing page
SiteCards(l) ==
    CASE l.page = -1 -> <<Card(Text(<<"X", "1">>), "/m/x1")>>
      [] l.page = 0  -> <<Card(Text(<<" ", "X", "1", " ">>), "/m/x1")>>
      [] l.page = 1  -> <<Card(Text(<<" ">>), "/m/x2"), Card(Text(<<"Z", "3">>), "")>>
      [] OTHER       -> <<Card(NoText, "/m/x2"), Card(Text(<<"Y", "2">>), "/m/x2")>>

RECURSIVE LStrip(_)
LStrip(t) == IF t # <<>> /\ Head(t) = " " THEN LStrip(Tail(t)) ELSE t
RECURSIVE RStrip(_)
RStrip(t) == IF t # <<>> /\ t[Len(t)] = " " THEN RStrip(SubSeq(t, 1, Len(t) - 1)) ELSE t
\* str.strip()
Strip(t) == RStrip(LStrip(t))

\* parse(): the page number of a response
PageNumber(l) == IF l.page < 0 THEN 1 ELSE l.page + 1

RECURSIVE SetMax(_)
SetMax(S) == IF S = {} THEN 0 ELSE LET x == CHOOSE y \in S : TRUE IN Max(x, SetMax(S \ {x}))

\* discover_last_page_number(): the value it stores in max_page
DiscoverLastPageNumber(control) ==
    LET max_page_num == SetMax({h.page : h \in {c \in control : c.page >= 0}})
    IN  IF max_page_num > 0 THEN max_page_num ELSE MAX_PAGE_DISCOVERY_LIMIT

SpiderState == [discovered_pages |-> discovered_pages, processed_pages |-> processed_pages,
                max_page |-> max_page, last_page_found |-> last_page_found,
                rereported |-> rereported, dropped |-> {}]

\* the test left out: every link is followed
AdmissibleAlways(S, l) == TRUE
\* the test with its second half left out
AdmissibleUnlessDiscovered(S, l) == l \notin S.discovered_pages
\* if full_url not in self.discovered_pages and full_url not in self.processed_pages
Admissible(S, l) == l \notin S.discovered_pages /\ l \notin S.processed_pages
\* the insertion left out
AdmitNothing(S, l) == S
\* self.discovered_pages.add(full_url)
Admit(S, l) == [S EXCEPT !.discovered_pages = @ \cup {l}]
Met(S, l) == [S EXCEPT !.rereported = @ \cup {l}]

\* the page_url of the generated sequence
PageUrl(page_param) == IF page_param > 0 THEN Loc(page_param) ELSE Start

NoOut == [kind |-> "end"]
Yield(g, S, out) == [g |-> g, S |-> S, out |-> out]

MissileItem(name, c, g) ==
    [name |-> name, detail_page_url |-> c.href, index_page_url |-> g.url,
     page_number |-> g.page_number, is_detailed |-> FALSE]

\* the links of the for loop that still lead to a request; list(set(...)) fixes no
\* order, and a link that is not admissible now never becomes so
Admissibles(g, S) == {h \in g.links : h.page >= 0 /\ Admissible(S, h)}
Skipped(g, S) == {h \in g.links : h.page >= 0 /\ ~Admissible(S, h)}

\* the choices the iteration order leaves to the next step of generator g
Picks(g, S) == IF g.phase = "links" /\ Admissibles(g, S) # {} THEN Admissibles(g, S)
               ELSE {Start}

\* next() on the generator parse() returned: run the body of
\* discover_pagination_links and then of extract_missile_data_from_index up to
\* the next yield; in the for loop over the links, full_url is the next one admitted;
\* in the 0..max_page loop, stop is the next page_param whose request is answered
RECURSIVE Resume(_, _, _)
Resume(g, S, full_url) ==
    IF g.phase = "links"
    THEN LET S1 == [S EXCEPT !.rereported = @ \cup Skipped(g, S)]
         IN  IF Admissibles(g, S) # {}
             THEN Yield([g EXCEPT !.links = Admissibles(g, S) \ {full_url}],
                        Admit(S1, full_url), [kind |-> "page", url |-> full_url])
             ELSE IF S.max_page # NoInt /\ ~S.last_page_found
                  THEN Resume([g EXCEPT !.links = {}, !.phase = "generate", !.genAt = 0,
                                        !.genTo = S.max_page[1]], S1, full_url)
                  ELSE Resume([g EXCEPT !.links = {}, !.phase = "cards"], S1, full_url)
    ELSE IF g.phase = "generate"
    THEN LET stops == {k \in g.genAt..g.genTo :
                          Admissible(S, PageUrl(k)) /\ Served(PageUrl(k))}
             stop  == IF stops = {} THEN g.genTo + 1 ELSE FirstOf(stops)
             went  == g.genAt..(stop - 1)
             lost  == {PageUrl(k) : k \in {i \in went : Admissible(S, PageUrl(i))}}
             met   == {PageUrl(k) : k \in {i \in went : ~Admissible(S, PageUrl(i))}}
             S1    == [S EXCEPT !.discovered_pages = @ \cup lost, !.dropped = @ \cup lost,
                                !.rereported = @ \cup met]
         IN  IF stop > g.genTo
             THEN Resume([g EXCEPT !.phase = "cards", !.genAt = 0, !.genTo = 0],
                         [S1 EXCEPT !.last_page_found = TRUE], full_url)
             ELSE Yield([g EXCEPT !.genAt = stop + 1], Admit(S1, PageUrl(stop)),
                        [kind |-> "page", url |-> PageUrl(stop)])
    ELSE IF g.cards = <<>>
         THEN Yield([g EXCEPT !.phase = "done"], S, NoOut)
         ELSE LET card == Head(g.cards)
                  rest == [g EXCEPT !.cards = Tail(@), !.item_out = FALSE]
              IN  IF g.item_out
                  THEN Yield(rest, S, [kind |-> "detail", url |-> card.href,
                                       missile_name |-> Strip(card.text.chars),
                                       index_page_url |-> g.url,
                                       page_number |-> g.page_number])
                  ELSE IF card.text.none \/ card.text.chars = <<>>
                       THEN Resume(rest, S, full_url)
                       ELSE Yield(IF card.href # "" THEN [g EXCEPT !.item_out = TRUE] ELSE rest, S,
                                  [kind |-> "item", item |-> MissileItem(Strip(card.text.chars), card, g)])

-----------------------------------------------------------------------------
(* Detail-file naming.  A text is a sequence of characters; CYR_YA, CYR_HARD    *)
(* and E_ACUTE stand for the letters U+044F, U+044A and U+00E9.                 *)

\* TRANSLITERATION_MAP, for the Cyrillic letters of the model's alphabet
TRANSLITERATION_MAP == [CYR_YA |-> <<"y", "a">>, CYR_HARD |-> <<>>]

AsciiAlnum == {"X", "Y", "Z", "a", "x", "y", "m", "i", "s", "l", "e", "n", "o", "d",
               "1", "2", "3", "7"}
\* str.isalnum()
IsAlnum(c) == c \in AsciiAlnum \cup {"E_ACUTE"} \cup DOMAIN TRANSLITERATION_MAP

\* transliterate_russian(text)
RECURSIVE transliterate_russian(_)
transliterate_russian(text) ==
    IF text = <<>> THEN <<>>
    ELSE LET char == Head(text)
             out  == IF char \in DOMAIN TRANSLITERATION_MAP THEN TRANSLITERATION_MAP[char]
                     ELSE IF IsAlnum(char) \/ char \in {" ", "-", "_"} THEN <<char>>
                     ELSE <<>>
         IN  out \o transliterate_russian(Tail(text))

\* re.sub(r'[^a-zA-Z0-9_-]', '_', s)
Underscored(s) == [i \in 1..Len(s) |-> IF s[i] \in AsciiAlnum \cup {"_", "-"} THEN s[i]
                                       ELSE "_"]
\* re.sub(r'_+', '_', s)
RECURSIVE Collapsed(_)
Collapsed(s) ==
    IF Len(s) < 2 THEN s
    ELSE IF s[1] = "_" /\ s[2] = "_" THEN Collapsed(Tail(s))
    ELSE <<s[1]>> \o Collapsed(Tail(s))
\* str.strip('_')
RECURSIVE StripUnderscores(_)
StripUnderscores(s) ==
    IF s # <<>> /\ Head(s) = "_" THEN StripUnderscores(Tail(s))
    ELSE IF s # <<>> /\ s[Len(s)] = "_" THEN StripUnderscores(SubSeq(s, 1, Len(s) - 1))
    ELSE s

CleanName(missile_name) ==
    StripUnderscores(Collapsed(Underscored(transliterate_russian(missile_name))))

MissileWord == <<"m", "i", "s", "s", "i", "l", "e">>
\* get_url_prefix(url), path being urlparse(url).path.strip('/').split('/')
get_url_prefix(path) ==
    IF Len(path) >= 2 /\ path[1] = MissileWord THEN path[2] ELSE MissileWord

\* the length base_filename is cut to
FilenameLimit == 60

\* the cut left out
UncutName(s) == s
\* if len(base_filename) > 60: base_filename = base_filename[:60]
CutName(s) == IF Len(s) > FilenameLimit THEN SubSeq(s, 1, FilenameLimit) ELSE s

JsonExt == <<".", "j", "s", "o", "n">>
\* the file name save_individual_missile_data gives the body file
FileName(missile_name, path) ==
    CutName(get_url_prefix(path) \o <<"_">> \o CleanName(missile_name)) \o JsonExt

-----------------------------------------------------------------------------
(* The import process *)

\* what happened to record rec: the action of the missile upsert, the missile that
\* carries the record's locator afterwards (0: none), the growth of the error counter
Seen(op, rec, st, before) ==
    [op |-> op, rec |-> rec, action |-> st.upsert,
     mid |-> ByUrl(st.tx.missiles, rec.url),
     errs |-> st.stats.errors - before.errors]

\* main(): data/missiles_basic.json, data/missiles_detailed.json, data/detailed
NoFiles == [main |-> FALSE, basic_json |-> FALSE, detailed_json |-> FALSE,
            detailed_dir |-> FALSE]
FileSets == [main : {TRUE}, basic_json : BOOLEAN, detailed_json : BOOLEAN,
             detailed_dir : BOOLEAN]
\* the tests without the one for the detailed-records directory
RequiredPresentButDir(f) == f.basic_json /\ f.detailed_json

\* none of the three "if not ... exists(): sys.exit(1)" tests fires
RequiredPresent(f) == f.basic_json /\ f.detailed_json /\ f.detailed_dir

\* store: the committed store when the second import began; mode: the update_mode
\* of the first import
NoReplay == [on |-> FALSE, recs |-> <<>>, store |-> EmptyStore, mode |-> FALSE]

\* the records the files hold at position idx + 1
MayImport(r) == replay.on => idx < Len(replay.recs) /\ r = replay.recs[idx + 1]

ImportInit ==
    /\ db = EmptyStore
    /\ sess = NewSession(EmptyStore)
    /\ stats = ZeroStats
    /\ update_mode = FALSE
    /\ pc = "idle"
    /\ idx = 0
    /\ runs = 0
    /\ basic_data = [u \in Urls |-> NoInfo]
    /\ hist = <<>>
    /\ okLocators = {}
    /\ resolved = {}
    /\ replay = NoReplay
    /\ files = NoFiles
    /\ exit_status = NoInt

\* MissileSpider.__init__, before start_requests
SpiderInit ==
    /\ discovered_pages = {}
    /\ processed_pages = {}
    /\ max_page = NoInt
    /\ last_page_found = FALSE
    /\ gens = {}
    /\ dupRequested = {}
    /\ rereported = {}
    /\ pageNumbers = {}
    /\ firstControl = NoInt
    /\ basic_items = <<>>
    /\ detail_fetches = EmptyBag
    /\ body_writes = EmptyBag
    /\ detailed_items = <<>>
    /\ basic_file = NoInt
    /\ detailed_file = NoInt
    /\ spider_open = TRUE
    /\ crawls = 1

Init ==
    /\ ImportInit /\ SpiderInit
    /\ pending = {} /\ requested = {} /\ detail_seen = {} /\ detail_pending = EmptyBag

\* db_manager.create_tables(): CREATE TABLE IF NOT EXISTS, committed at once
CreateTables(store) == [store EXCEPT !.schema = TRUE]

\* JSONToDatabaseImporter(database_url, update_mode) and create_tables(), by a
\* caller other than main() of the package
Construct(um) ==
    /\ pc \in {"idle", "crashed"} /\ runs < MaxRuns
    /\ pc' = "ready"
    /\ db' = CreateTables(db)
    /\ sess' = NewSession(db')
    /\ stats' = ZeroStats
    /\ update_mode' = um
    /\ hist' = <<>>
    /\ replay' = NoReplay
    /\ files' = NoFiles
    /\ exit_status' = NoInt
    /\ UNCHANGED <<idx, runs, basic_data, okLocators, resolved>>
    /\ UNCHANGED crawlVars

\* main() up to the call of import_detailed_missiles: the three existence tests,
\* each ending the process with sys.exit(1), then the importer and the tables
Main(um, f) ==
    /\ pc \in {"idle", "crashed"} /\ runs < MaxRuns
    /\ files' = f
    /\ IF RequiredPresent(f)
       THEN /\ pc' = "ready"
            /\ db' = CreateTables(db)
            /\ sess' = NewSession(db')
            /\ stats' = ZeroStats
            /\ update_mode' = um
            /\ hist' = <<>>
            /\ replay' = NoReplay
            /\ exit_status' = NoInt
       ELSE /\ pc' = "idle"                 \* no importer was constructed
            /\ exit_status' = Some(1)
            /\ sess' = NewSession(db)
            /\ stats' = ZeroStats
            /\ hist' = <<>>
            /\ replay' = NoReplay
            /\ UNCHANGED <<db, update_mode>>
    /\ UNCHANGED <<idx, runs, basic_data, okLocators, resolved>>
    /\ UNCHANGED crawlVars

\* create_scraping_session(): one ScrapingSession row, added and committed
CreateScrapingSession(st) ==
    Flush(st, [table |-> "sessions",
               row |-> [session_name |-> "Import Session", status |-> "completed",
                        total_missiles |-> st.stats.created["missiles"],
                        total_detailed |-> st.stats.created["detailed_data"]]])

\* what follows the batch in its process: main() records the scraping session,
\* another caller only closes
Finish(s, c) == IF files = NoFiles THEN Enter(s, c) ELSE CreateScrapingSession(Enter(s, c))

\* the store a process leaves: the one Finish commits when the batch was committed
Left == IF pc = "done" THEN Finish(sess, stats).tx ELSE db

\* the same import is started again, on the same files, by a new process
Rerun(um) ==
    /\ pc \in {"done", "crashed"} /\ runs < MaxRuns
    /\ hist # <<>>
    /\ pc' = hist[1].op /\ idx' = 0 /\ runs' = runs + 1
    /\ db' = Left
    /\ sess' = NewSession(Left)
    /\ stats' = ZeroStats
    /\ update_mode' = um
    /\ basic_data' = IF hist[1].op = "detailed" THEN BasicData ELSE basic_data
    /\ replay' = [on |-> TRUE, recs |-> [i \in 1..Len(hist) |-> hist[i].rec],
                  store |-> Left, mode |-> update_mode]
    /\ hist' = <<>>
    /\ exit_status' = NoInt
    /\ UNCHANGED <<okLocators, resolved, files>>
    /\ UNCHANGED crawlVars

\* import_basic_missiles(basic_json_path), which main() does not call
BeginBasic ==
    /\ pc = "ready" /\ runs < MaxRuns /\ files = NoFiles
    /\ pc' = "basic" /\ idx' = 0 /\ runs' = runs + 1
    /\ hist' = <<>>
    /\ UNCHANGED <<db, sess, stats, update_mode, basic_data, okLocators, resolved, replay,
                   files, exit_status>>
    /\ UNCHANGED crawlVars

BasicStep(r) ==
    /\ pc = "basic" /\ idx < MaxBatch /\ MayImport(r)
    /\ LET st == ImportBasicRecord(Enter(sess, stats), r)
       IN  /\ sess' = SessOf(st)
           /\ stats' = st.stats
           /\ hist' = Append(hist, Seen("basic", r, st, stats))
           /\ resolved' = resolved \cup st.res
    /\ idx' = idx + 1
    /\ UNCHANGED <<db, update_mode, pc, runs, basic_data, okLocators, replay, files,
                   exit_status>>
    /\ UNCHANGED crawlVars

\* main(): import_detailed_missiles(detailed_json, detailed_dir, basic_json)
BeginDetailed ==
    /\ pc = "ready" /\ runs < MaxRuns /\ files # NoFiles
    /\ pc' = "detailed" /\ idx' = 0 /\ runs' = runs + 1
    /\ basic_data' = BasicData
    /\ hist' = <<>>
    /\ UNCHANGED <<db, sess, stats, update_mode, okLocators, resolved, replay, files,
                   exit_status>>
    /\ UNCHANGED crawlVars

DetailedStep(e) ==
    /\ pc = "detailed" /\ idx < MaxBatch /\ MayImport(e)
    /\ LET st == ImportDetailedRecord(Enter(sess, stats), e, basic_data[e.url])
       IN  /\ sess' = SessOf(st)
           /\ stats' = st.stats
           /\ hist' = Append(hist, Seen("detailed", e, st, stats))
           /\ resolved' = resolved \cup st.res
    /\ idx' = idx + 1
    /\ UNCHANGED <<db, update_mode, pc, runs, basic_data, okLocators, replay, files,
                   exit_status>>
    /\ UNCHANGED crawlVars

\* the commit that ends import_basic_missiles / import_detailed_missiles; when it
\* raises, nothing catches the exception and the process ends
EndBatch ==
    /\ pc \in {"basic", "detailed"}
    /\ replay.on => idx = Len(replay.recs)
    /\ LET st == Commit(Enter(sess, stats))
       IN  IF st.exc
           THEN /\ pc' = "crashed"
                /\ sess' = NewSession(db)
                /\ exit_status' = Some(1)
                /\ UNCHANGED <<db, okLocators>>
           ELSE /\ pc' = "done"
                /\ exit_status' = exit_status
                /\ sess' = SessOf(st)
                /\ db' = st.tx
                /\ okLocators' = okLocators \cup
                       {hist[i].rec.url : i \in {j \in 1..Len(hist) : hist[j].errs = 0}}
    /\ idx' = 0
    /\ basic_data' = [u \in Urls |-> NoInfo]
    /\ UNCHANGED <<stats, update_mode, runs, hist, resolved, replay, files>>
    /\ UNCHANGED crawlVars

\* the end of main(): create_scraping_session(); print_statistics();
\* importer.close(); the process ends with status 0.  Another caller only closes.
Close ==
    /\ pc = "done"
    /\ pc' = "idle"
    /\ db' = Finish(sess, stats).tx
    /\ sess' = SessOf(Finish(sess, stats))
    /\ exit_status' = Some(0)
    /\ stats' = ZeroStats
    /\ hist' = <<>>
    /\ replay' = NoReplay
    /\ UNCHANGED <<update_mode, idx, runs, basic_data, okLocators, resolved, files>>
    /\ UNCHANGED crawlVars

-----------------------------------------------------------------------------
(* The crawl process *)

\* start_requests(): one request for START_URLS[0]
CrawlInit ==
    /\ ImportInit /\ SpiderInit
    /\ pending = {Start} /\ requested = {Start} /\ detail_seen = {} /\ detail_pending = EmptyBag

\* what a listing page can hold besides its cards: the hrefs of its pagination
\* control and further page= links
PageContents ==
    {[control |-> c, others |-> o] :
        c \in {x \in SUBSET ControlHrefs : Cardinality(x) <= MaxLinks},
        o \in SUBSET OtherHrefs}

\* RFPDupeFilter.request_seen with every request let through
UnseenAlways(seen, url) == TRUE
\* RFPDupeFilter.request_seen(request) is false: the scheduler enqueues the request
Unseen(seen, url) == url \notin seen

\* the engine takes what the generator g yielded: a listing request goes to the
\* downloader (dont_filter=True), an item to DataSeparationPipeline.process_item, a
\* detail request through the duplicate filter
Took(old, r, left) ==
    /\ discovered_pages' = r.S.discovered_pages
    /\ processed_pages' = r.S.processed_pages
    /\ max_page' = r.S.max_page
    /\ last_page_found' = r.S.last_page_found
    /\ rereported' = r.S.rereported
    /\ gens' = (gens \ old) \cup (IF r.g.phase = "done" THEN {} ELSE {r.g})
    /\ LET urls == r.S.dropped \cup (IF r.out.kind = "page" THEN {r.out.url} ELSE {})
       IN  /\ pending' = left \cup {l \in urls : Served(l)}
           /\ requested' = requested \cup urls
           /\ dupRequested' = dupRequested \cup (urls \cap requested)
    /\ basic_items' = IF r.out.kind = "item" THEN Append(basic_items, r.out.item)
                      ELSE basic_items
    /\ detail_seen' = IF r.out.kind = "detail" THEN detail_seen \cup {r.out.url}
                      ELSE detail_seen
    /\ detail_pending' = IF r.out.kind = "detail" /\ Unseen(detail_seen, r.out.url)
                         THEN detail_pending (+) SetToBag({r.out})
                         ELSE detail_pending
    /\ UNCHANGED <<detail_fetches, body_writes, detailed_items>>
    /\ UNCHANGED fileVars

\* a response arrives and parse(response) runs up to its first yield
parse(response, page) ==
    /\ response \in pending
    /\ Cardinality(gens) < MaxInFlight
    /\ LET S == [SpiderState EXCEPT
                   !.processed_pages = @ \cup {response},
                   !.max_page = IF last_page_found THEN @
                                ELSE Some(DiscoverLastPageNumber(page.control))]
           g == [url |-> response, page_number |-> PageNumber(response),
                 phase |-> "links", links |-> page.control \cup page.others,
                 genAt |-> 0, genTo |-> 0, cards |-> SiteCards(response),
                 item_out |-> FALSE]
       IN  \E full_url \in Picks(g, S) :
             Took({}, Resume(g, S, full_url), pending \ {response})
    /\ pageNumbers' = pageNumbers \cup {<<response, PageNumber(response)>>}
    /\ firstControl' = IF processed_pages = {}
                       THEN Some({h.page : h \in {c \in page.control : c.page >= 0}})
                       ELSE firstControl
    /\ UNCHANGED importVars

\* the engine asks the generator g for its next value
Continue(g) ==
    /\ g \in gens
    /\ \E full_url \in Picks(g, SpiderState) :
         Took({g}, Resume(g, SpiderState, full_url), pending)
    /\ UNCHANGED <<pageNumbers, firstControl>>
    /\ UNCHANGED importVars

\* a run of k letters
Padding(k) == [i \in 1..k |-> "a"]

\* the path of a detail locator, split at the slashes ("/m/" stands for "/missile/")
PathOf(url) ==
    CASE url = "/m/x1"       -> <<MissileWord, <<"x", "1">>>>
      [] url = "/m/x2"       -> <<MissileWord, <<"x", "2">>>>
      [] url = "/m/x1/photo" -> <<MissileWord, <<"x", "1">>, <<"p", "h", "o", "t", "o">>>>
      [] url = "/node/7"     -> <<<<"n", "o", "d", "e">>, <<"7">>>>
      [] url = "/about"      -> <<<<"a", "b", "o", "u", "t">>>>
      [] OTHER               -> <<MissileWord, Padding(FilenameLimit + 1)>>

\* whether the detail page the site serves at a locator holds #page-content-inner
HasContent(url) == url # "/m/x2"

\* save_individual_missile_data(detailed_info, missile_name): the file written
BodyWrite(missile_name, path) ==
    [missile_name |-> missile_name, path |-> path,
     filename |-> FileName(missile_name, path)]

\* the entry process_item appends to detailed_data for the item parse_detail_page yields
DetailedItem(request) ==
    [name |-> request.missile_name, detail_page_url |-> request.url,
     index_page_url |-> request.index_page_url, page_number |-> request.page_number,
     detailed_filename |-> FileName(request.missile_name, PathOf(request.url))]

\* the test left out: extraction goes on whatever the page holds
AbortsNever(has_content) == FALSE
\* if not page_content_inner: self.logger.warning(...); return
Aborts(has_content) == ~has_content

\* the response to a detail request arrives and parse_detail_page(response) runs;
\* has_content: the page holds #page-content-inner
parse_detail_page(request, has_content) ==
    /\ BagIn(request, detail_pending)
    /\ detail_pending' = detail_pending (-) SetToBag({request})
    /\ detail_fetches' = detail_fetches (+) SetToBag({request.url})
    /\ IF ~Aborts(has_content)
       THEN /\ body_writes' = body_writes (+)
                    SetToBag({BodyWrite(request.missile_name, PathOf(request.url))})
            /\ detailed_items' = Append(detailed_items, DetailedItem(request))
       ELSE UNCHANGED <<body_writes, detailed_items>>
    /\ UNCHANGED <<discovered_pages, processed_pages, max_page, last_page_found, pending,
                   gens, requested, dupRequested, rereported, pageNumbers, firstControl,
                   basic_items, detail_seen>>
    /\ UNCHANGED fileVars
    /\ UNCHANGED importVars

-----------------------------------------------------------------------------
(* The naming of the body files, on names and locators of every shape *)

NameTailChars == {"X", " ", "-", "_", "!", "CYR_YA", "CYR_HARD", "E_ACUTE"}
NameTails == {<<>>} \cup {<<c>> : c \in NameTailChars}
                 \cup {<<c, d>> : c \in NameTailChars, d \in NameTailChars}
\* display names: a run of letters up to the cut, then a tail of any characters
DisplayNames ==
    {Padding(k) \o t : k \in {0} \cup (FilenameLimit - 5)..(FilenameLimit - 1), t \in NameTails}
NamingUrls == {"/m/x1", "/m/x1/photo", "/node/7", "/about", "/m/long"}

DetailRequest(url, name) ==
    [kind |-> "detail", url |-> url, missile_name |-> name, index_page_url |-> Start,
     page_number |-> 1]

\* one detail response is awaited, or two for the same name
NamingInit ==
    /\ ImportInit /\ SpiderInit
    /\ pending = {} /\ requested = {}
    /\ \E name \in DisplayNames, urls \in SUBSET NamingUrls :
          /\ Cardinality(urls) \in 1..2
          /\ detail_seen = urls
          /\ detail_pending = SetToBag({DetailRequest(u, name) : u \in urls})

NamingNext ==
    \E request \in BagToSet(detail_pending) :
        parse_detail_page(request, HasContent(request.url))

SpecNaming == NamingInit /\ [][NamingNext]_vars

\* if data: with open(path, 'w') as f: json.dump(data, f)
Dumped(file, data) == IF data # <<>> THEN Some(data) ELSE file

\* the engine has nothing scheduled and no callback running: it closes the spider,
\* and close_spider(spider) writes the two collection files
close_spider ==
    /\ spider_open
    /\ pending = {} /\ gens = {} /\ detail_pending = EmptyBag
    /\ basic_file' = Dumped(basic_file, basic_items)
    /\ detailed_file' = Dumped(detailed_file, detailed_items)
    /\ spider_open' = FALSE
    /\ UNCHANGED <<discovered_pages, processed_pages, max_page, last_page_found, pending,
                   gens, requested, dupRequested, rereported, pageNumbers, firstControl,
                   basic_items, detail_seen, detail_pending, detail_fetches, body_writes,
                   detailed_items, crawls>>
    /\ UNCHANGED importVars

-----------------------------------------------------------------------------
(* DataSeparationPipeline over several crawl processes, on items of every kind *)

MaxItems == 2     \* items one crawl hands to the pipeline
MaxCrawls == 3    \* crawl processes started one after the other

\* the items a spider can hand over: basic ones from cards, detailed ones from pages
PipelineItems ==
    {[name |-> n, detail_page_url |-> u, index_page_url |-> Start, page_number |-> 1,
      is_detailed |-> FALSE] : n \in {<<"X", "1">>, <<"Y", "2">>}, u \in Urls}
        \cup {DetailedItem(DetailRequest(u, <<"X", "1">>)) @@ [is_detailed |-> TRUE] :
                  u \in Urls}

\* process_item(item, spider)
process_item(item) ==
    /\ spider_open
    /\ Len(basic_items) + Len(detailed_items) < MaxItems
    /\ IF item.is_detailed
       THEN /\ detailed_items' = Append(detailed_items,
                                        [f \in DOMAIN item \ {"is_detailed"} |-> item[f]])
            /\ UNCHANGED basic_items
       ELSE /\ basic_items' = Append(basic_items, item)
            /\ UNCHANGED detailed_items
    /\ UNCHANGED <<discovered_pages, processed_pages, max_page, last_page_found, pending,
                   gens, requested, dupRequested, rereported, pageNumbers, firstControl,
                   detail_seen, detail_pending, detail_fetches, body_writes>>
    /\ UNCHANGED fileVars
    /\ UNCHANGED importVars

\* the crawl command is run again: a new process, a new pipeline object
open_spider ==
    /\ ~spider_open /\ crawls < MaxCrawls
    /\ spider_open' = TRUE
    /\ crawls' = crawls + 1
    /\ basic_items' = <<>>
    /\ detailed_items' = <<>>
    /\ UNCHANGED <<discovered_pages, processed_pages, max_page, last_page_found, pending,
                   gens, requested, dupRequested, rereported, pageNumbers, firstControl,
                   detail_seen, detail_pending, detail_fetches, body_writes, basic_file,
                   detailed_file>>
    /\ UNCHANGED importVars

SerializerNext ==
    \/ \E item \in PipelineItems : process_item(item)
    \/ close_spider
    \/ open_spider

SpecSerializer == Init /\ [][SerializerNext]_vars

CrawlNext ==
    \/ \E l \in pending, page \in PageContents : parse(l, page)
    \/ \E g \in gens : Continue(g)
    \/ \E request \in BagToSet(detail_pending) :
           parse_detail_page(request, HasContent(request.url))
    \/ close_spider

SpecCrawl == CrawlInit /\ [][CrawlNext]_vars

\* a site whose listing pages do not change during the crawl: what each locator
\* serves is one of a few fixed pages (pagination links forward, back and to the
\* start, a link in another context, and a first page without any page= link)
SitePages(l) ==
    CASE l = Start  -> {[control |-> {Loc(1), Loc(2)}, others |-> {}],
                        [control |-> {Loc(0)}, others |-> {Loc(MaxOrd)}],
                        [control |-> {}, others |-> {}]}
      [] l = Loc(0) -> {[control |-> {Start, Loc(1)}, others |-> {}]}
      [] l = Loc(1) -> {[control |-> {Loc(0), Loc(2)}, others |-> {Loc(MaxOrd)}]}
      [] OTHER      -> {[control |-> {Loc(1)}, others |-> {}],
                        [control |-> {Start, Loc(0)}, others |-> {}]}

FairNext ==
    \/ \E l \in pending : \E page \in SitePages(l) : parse(l, page)
    \/ \E g \in gens : Continue(g)
    \/ \E request \in BagToSet(detail_pending) :
           parse_detail_page(request, HasContent(request.url))
    \/ close_spider

\* the engine keeps taking scheduled requests and resuming callbacks while there are any
SpecCrawlFair == CrawlInit /\ [][FairNext]_vars /\ WF_vars(FairNext)

Next ==
    \/ \E um \in BOOLEAN : Construct(um)
    \/ \E um \in BOOLEAN, f \in FileSets : Main(um, f)
    \/ \E um \in BOOLEAN : Rerun(um)
    \/ BeginBasic
    \/ \E r \in BasicRecords : BasicStep(r)
    \/ BeginDetailed
    \/ \E e \in Entries : DetailedStep(e)
    \/ EndBatch
    \/ Close

Spec == Init /\ [][Next]_vars

-----------------------------------------------------------------------------
(* Claims *)

\* the detail-page locators the missiles of a store carry
LocatorsOf(store) == {store.missiles[i].url : i \in 1..Len(store.missiles)}

\* C1: upsert is keyed by detail-page locator: once a batch is committed, every
\* locator that was imported without error is carried by a missile of the store
\* (the store's missiles correspond one-to-one to those locators), even when a
\* stored missile has the same name as the record that brought the locator.
C1_KeyedByLocator == pc = "done" => okLocators \subseteq LocatorsOf(db)

\* every record of the file has its required members, with a name
WellFormedBasic(recs) == \A i \in 1..Len(recs) : recs[i].haskeys /\ recs[i].name # Null

\* C2: create-only idempotence of the basic import: when a file of well-formed
\* basic records is imported a second time with update_mode = False, the second
\* run adds no missile row and its error counter is zero.
C2_BasicRerunIdempotent ==
    (/\ pc \in {"done", "crashed"}
     /\ replay.on /\ ~update_mode
     /\ hist # <<>> /\ hist[1].op = "basic"
     /\ WellFormedBasic(replay.recs))
        => /\ Len(db.missiles) = Len(replay.store.missiles)
           /\ stats.errors = 0

\* the rows of a child table that belong to missile m
Of(rows, m) == SelectSeq(rows, LAMBDA x : x.missile_id = m)

\* a DetailRecord whose body file exists and holds what the spider writes
WellFormedEntry(e) ==
    /\ e.scraped_ok /\ e.body.file = "ok" /\ e.body.sc.ok /\ e.body.chars.ok
    /\ \A i \in 1..Len(e.body.sc.items) : e.body.sc.items[i].ok
    /\ \A i \in 1..Len(e.body.chars.items) :
           e.body.chars.items[i].ok /\ e.body.chars.items[i].value # Null

\* the child rows of missile m are exactly those the body b implies
ChildrenAre(store, m, b) ==
    /\ Len(Of(store.detailed, m)) = 1
    /\ [i \in 1..Len(Of(store.sc, m)) |-> Of(store.sc, m)[i].field_name]
           = [i \in 1..Len(b.sc.items) |-> b.sc.items[i].name]
    /\ Of(store.chars, m)
           = [i \in 1..Len(b.chars.items) |->
                 [missile_id |-> m, name |-> b.chars.items[i].name,
                  value |-> b.chars.items[i].value]]
    /\ Of(store.images, m)
           = [i \in 1..Len(b.image_urls) |->
                 [missile_id |-> m, url |-> b.image_urls[i], type |-> "main"]]
             \o [i \in 1..Len(b.gallery_images) |->
                 [missile_id |-> m, url |-> b.gallery_images[i], type |-> "gallery"]]

CrawlDone == pending = {} /\ gens = {} /\ detail_pending = EmptyBag

\* C4: at-most-once admission of listing pages: no listing locator is requested
\* twice, and the requests made are exactly the start request and one request per
\* locator admitted to discovered_pages, however often parsed pages and the
\* generated 0..max_page sequence report a locator again.
C4_AtMostOnce == dupRequested = {} /\ requested = discovered_pages \cup {Start}

\* the crawl is over, three pages were parsed, and both a pagination href and the
\* generated sequence reported locators that were already discovered or processed
C4_Witness ==
    /\ CrawlDone /\ Cardinality(processed_pages) >= 3
    /\ Start \in rereported /\ Loc(1) \in rereported
    /\ Loc(1) \in requested

\* the ordinals 1..n
Ordinals(n) == 1..n

\* C5: pagination generation: when the pagination control of the first listing page
\* references ordinals whose maximum is N > 0, the ceiling is N and the finished
\* crawl has visited exactly N+1 listing locators, which carry the page ordinals
\* 1..N+1, no ordinal and no locator twice.
C5_GeneratesCeilingPlusOne ==
    (CrawlDone /\ firstControl # NoInt /\ SetMax(firstControl[1]) > 0)
        => LET N == SetMax(firstControl[1])
           IN  /\ max_page = Some(N)
               /\ Cardinality(processed_pages) = N + 1
               /\ {pn[2] : pn \in pageNumbers} = Ordinals(N + 1)
               /\ Cardinality(pageNumbers) = N + 1

\* C6: every record the card extractor emits has a non-empty name; a card
\* whose heading text is missing, empty or whitespace only yields no record.
C6_EmittedNamesNonEmpty ==
    \A i \in 1..Len(basic_items) : basic_items[i].name # <<>>

\* C7: dimension resolution converges to one id per name: in every kind no two
\* entities of the store carry the same name, and all resolutions of the same
\* (kind, name), within one run and across runs in either mode, return one id.
C7_OneIdPerName ==
    /\ \A k \in KindSet : \A i, j \in 1..Len(db.dims[k]) :
           db.dims[k][i] = db.dims[k][j] => i = j
    /\ \A a, b \in resolved : (a[1] = b[1] /\ a[2] = b[2]) => a[3] = b[3]

\* the store after the basic import of {X-1, /m/x1, /p/1, page 1, 500 km, country A}
\* into an empty store
C8_AfterBasic(store) ==
    /\ store.dims = [EmptyStore.dims EXCEPT !["countries"] = <<"A">>]
    /\ Len(store.missiles) = 1
    /\ store.missiles[1].name = "X-1" /\ store.missiles[1].url = "/m/x1"
    /\ store.missiles[1].index_url = "/p/1" /\ store.missiles[1].page = Some(1)
    /\ store.missiles[1].range_km = Some(500)
    /\ store.missiles[1].dim = [NoDims EXCEPT !["countries"] = 1]
    /\ ~store.missiles[1].is_detailed
    /\ store.detailed = <<>> /\ store.sc = <<>> /\ store.links = <<>>
    /\ store.chars = <<>> /\ store.images = <<>>

C8_Final(store) ==
    /\ Len(store.missiles) = 1
    /\ store.missiles[1].name = "X-1" /\ store.missiles[1].range_km = Some(500)
    /\ store.dims["countries"] = <<"A">>
    /\ store.missiles[1].dim["countries"] = 1
    /\ Len(store.chars) = 2 /\ \A i \in 1..2 : store.chars[i].missile_id = 1
    /\ Len(store.images) = 1 /\ store.images[1].missile_id = 1

\* an update-mode detailed batch that has taken the DetailRecord of /m/x1 with two
\* characteristics and one image, the store being the one the basic import left
C8_Scenario ==
    /\ pc = "detailed" /\ update_mode
    /\ C8_AfterBasic(db)
    /\ Len(hist) = 1 /\ hist[1].rec = Entry("X-1", "/m/x1", BodyTwoOne, TRUE)

\* C8: end-to-end scenario: from an empty store, the basic import of {X-1, /m/x1,
\* /p/1, page 1, 500 km, country A} followed by the update-mode import of a
\* DetailRecord for /m/x1 with two characteristics and one image ends in a store
\* with one missile X-1 of range 500, one country A which the missile references,
\* two characteristic rows and one image row.
C8_EndToEnd ==
    [][(C8_Scenario /\ pc' # pc) => (pc' = "done" /\ C8_Final(db'))]_vars

C8_Witness ==
    /\ C8_Scenario
    /\ hist[1].errs = 0
    /\ ~Commit(Enter(sess, stats)).exc
    /\ C8_Final(Commit(Enter(sess, stats)).tx)

NoChildren(store, m) ==
    /\ Of(store.detailed, m) = <<>> /\ Of(store.sc, m) = <<>>
    /\ Of(store.chars, m) = <<>> /\ Of(store.images, m) = <<>>

SameChildren(old, new, m) ==
    /\ Of(new.detailed, m) = Of(old.detailed, m) /\ Of(new.sc, m) = Of(old.sc, m)
    /\ Of(new.chars, m) = Of(old.chars, m) /\ Of(new.images, m) = Of(old.images, m)

\* C9: record-level atomicity of children: when a batch of one DetailRecord that
\* counted an error is committed, the missile of that record has in the committed
\* store all child rows of the record, or no child rows, or the child rows it had
\* before the batch; never a part of the record's children.
C9_ChildrenAllOrNone ==
    [][(pc = "detailed" /\ pc' = "done" /\ Len(hist) = 1 /\ hist[1].errs > 0)
          => LET m == ByUrl(db'.missiles, hist[1].rec.url)
             IN  m > 0 => \/ ChildrenAre(db', m, hist[1].rec.body)
                          \/ NoChildren(db', m)
                          \/ SameChildren(db, db', m)]_vars

\* a DetailRecord whose body file is missing or whose child payload is malformed
C10_Fails(e) ==
    \/ e.body.file = "missing"
    \/ /\ e.body.file = "ok"
       /\ \/ ~e.body.sc.ok \/ ~e.body.chars.ok
          \/ \E i \in 1..Len(e.body.sc.items) : ~e.body.sc.items[i].ok
          \/ \E i \in 1..Len(e.body.chars.items) :
                 ~e.body.chars.items[i].ok \/ e.body.chars.items[i].value = Null

\* C10: per-record errors are absorbed and counted: every record of a detailed
\* batch whose detail file is missing or whose child payload is malformed raises
\* the error counter by exactly one.
C10_OneErrorPerFailingRecord ==
    \A i \in 1..Len(hist) :
        (hist[i].op = "detailed" /\ C10_Fails(hist[i].rec)) => hist[i].errs = 1

\* C11: fatal precondition: when the import command starts and the basic-records
\* file, the detailed-index file or the detailed-records directory is absent, the
\* command exits with status 1 and the store is exactly as it was: no table is
\* created, no row and no scraping-session record is written.
C11_FatalPrecondition ==
    [][(/\ pc \in {"idle", "crashed"} /\ files'.main
        /\ (~files'.basic_json \/ ~files'.detailed_json \/ ~files'.detailed_dir))
          => (exit_status' = Some(1) /\ db' = db /\ pc' = "idle")]_vars

\* the command has just refused to start for want of the directory alone, on a
\* database that was never opened
C11_Witness ==
    /\ pc = "idle" /\ exit_status = Some(1)
    /\ files.main /\ files.basic_json /\ files.detailed_json /\ ~files.detailed_dir
    /\ db = EmptyStore /\ ~db.schema

\* the numbers of missile, detailed-data, structured-content, characteristic and
\* image rows of a store
RowCounts(store) ==
    <<Len(store.missiles), Len(store.detailed), Len(store.sc), Len(store.chars),
      Len(store.images)>>

\* C12: whole-run idempotence of the import command: when main has imported, in
\* create-only mode and into an empty database, an index of one well-formed
\* DetailRecord, and is run a second time in create-only mode over the same files,
\* the row counts after the second run equal those after the first and the second
\* run reports zero errors.
C12_MainTwiceIdempotent ==
    (/\ pc \in {"done", "crashed"} /\ runs = 2
     /\ files.main /\ replay.on /\ ~replay.mode /\ ~update_mode
     /\ Len(replay.recs) = 1 /\ WellFormedEntry(replay.recs[1]))
        => /\ RowCounts(db) = RowCounts(replay.store)
           /\ stats.errors = 0

\* C13: pagination ceiling: once the first listing page has been parsed (and no
\* other page yet), the ceiling is the largest ordinal its pagination control
\* references when it references any, 0 included, and the fallback
\* MAX_PAGE_DISCOVERY_LIMIT only when it references none.
C13_CeilingIsMaxOrdinal ==
    (firstControl # NoInt /\ Cardinality(processed_pages) = 1)
        => max_page = Some(IF firstControl[1] = {} THEN MAX_PAGE_DISCOVERY_LIMIT
                           ELSE SetMax(firstControl[1]))

-----------------------------------------------------------------------------
(* C14 *)

\* the locators of the listing cards a basic record was emitted for
ReferencedBy(u) == {i \in 1..Len(basic_items) : basic_items[i].detail_page_url = u}

\* how many detail requests for u are scheduled and not yet answered
ScheduledFor(u) ==
    BagCardinality([r \in {x \in BagToSet(detail_pending) : x.url = u} |-> detail_pending[r]])
\* how many body files were written for the detail page at u
WritesFor(u) ==
    BagCardinality([w \in {x \in BagToSet(body_writes) : x.path = PathOf(u)} |-> body_writes[w]])
\* how many entries of the detailed index name u
EntriesFor(u) == Cardinality({i \in 1..Len(detailed_items) : detailed_items[i].detail_page_url = u})
FetchesFor(u) == IF BagIn(u, detail_fetches) THEN CopiesIn(u, detail_fetches) ELSE 0

\* C14: a detail locator referenced by any number of cards is scheduled for exactly
\* one fetch, and gets at most one body file write and at most one entry of the
\* detailed index
C14_DetailFetchedOnce ==
    \A u \in Urls :
        /\ (u \in detail_seen => ScheduledFor(u) + FetchesFor(u) = 1)
        /\ (u \notin detail_seen => ScheduledFor(u) + FetchesFor(u) = 0)
        /\ WritesFor(u) <= 1
        /\ EntriesFor(u) <= 1

\* two cards, on two listing pages, named /m/x1 and both asked for its detail page;
\* the page was fetched, its body file written and its index entry added
C14_Witness ==
    /\ CrawlDone
    /\ Cardinality({basic_items[i].index_page_url : i \in ReferencedBy("/m/x1")}) = 2
    /\ FetchesFor("/m/x1") = 1
    /\ WritesFor("/m/x1") = 1
    /\ EntriesFor("/m/x1") = 1

-----------------------------------------------------------------------------
(* C15 *)

\* the prefix and the cleaned name of a written body file, joined
JoinedName(w) == get_url_prefix(w.path) \o <<"_">> \o CleanName(w.missile_name)
\* the file name without its extension
BaseOf(filename) == SubSeq(filename, 1, Len(filename) - Len(JsonExt))

-----------------------------------------------------------------------------
(* C16 *)

\* C16: a run of main that found its three paths present, and in which records
\* raised errors that were caught and counted, ends with exit status 0
C16_ErrorsStillExitZero ==
    (files.main /\ RequiredPresent(files) /\ stats.errors > 0 /\ exit_status # NoInt)
        => exit_status = Some(0)

-----------------------------------------------------------------------------
(* C17 *)

\* the record import_detailed_missiles handled last in an update-mode run, when its
\* missile was in the store before the run and the record raised no error
LastMerged ==
    IF pc = "detailed" /\ update_mode /\ hist # <<>>
           /\ hist[Len(hist)].errs = 0
           /\ ByUrl(db.missiles, hist[Len(hist)].rec.url) > 0
    THEN Some(hist[Len(hist)].rec)
    ELSE NoInt

\* C17: after a DetailRecord for a stored missile is imported in update mode, the
\* missile's name, listing locator, page ordinal, range, year and description are
\* those of the incoming record and the statistics count a missile update
C17_UpdateOverwritesScalars ==
    LastMerged # NoInt =>
        LET e == LastMerged[1]
            row == sess.mem[ByUrl(db.missiles, e.url)]
        IN  /\ row.name = e.name
            /\ row.index_url = e.index_url
            /\ row.page = e.page
            /\ row.range_km = basic_data[e.url].range_km
            /\ row.year = basic_data[e.url].year
            /\ row.descr = basic_data[e.url].descr
            /\ stats.updated["missiles"] >= 1

-----------------------------------------------------------------------------
(* C18 *)

\* every missile row and every dimension row of the store a is in b, unchanged
KeepsStored(a, b) ==
    /\ Len(b.missiles) >= Len(a.missiles)
    /\ \A i \in 1..Len(a.missiles) : b.missiles[i] = a.missiles[i]
    /\ \A k \in KindSet :
          /\ Len(b.dims[k]) >= Len(a.dims[k])
          /\ \A i \in 1..Len(a.dims[k]) : b.dims[k][i] = a.dims[k][i]

\* C18: no step of a create-only import changes an attribute of a missile or of a
\* dimension entity that was in the store when the run began: not in the objects the
\* session holds, not in its transaction, not in what it commits
C18_CreateOnlyKeepsStored ==
    [][(pc \in {"basic", "detailed"} /\ ~update_mode)
          => /\ KeepsStored(db, db')
             /\ KeepsStored(db, sess'.tx)
             /\ \A i \in 1..Len(db.missiles) : sess'.mem[i] = db.missiles[i]]_vars

\* a create-only run committed after it imported the DetailRecord of a stored
\* missile: the record shows another name than the stored row, which was not yet
\* flagged as detailed, and the row is as it was
C18_Witness ==
    /\ pc = "done" /\ ~update_mode /\ runs = 2
    /\ \E i \in 1..Len(hist), j \in 1..Len(db.missiles) :
          /\ hist[i].errs = 0
          /\ hist[i].op = "detailed"
          /\ hist[i].rec.body = BodyTwoOne
          /\ db.missiles[j].url = hist[i].rec.url
          /\ db.missiles[j].name # hist[i].rec.name
          /\ ~db.missiles[j].is_detailed
          /\ Len(db.chars) = 2

-----------------------------------------------------------------------------
(* C19 *)

\* C19: while import_basic_missiles runs, in either mode, every missile that was in
\* the store when the run began has the attributes it had, and the child rows in the
\* session's transaction are those of the store
C19_BasicCreatesOrKeeps ==
    pc = "basic" =>
        /\ \A i \in 1..Len(db.missiles) : sess.mem[i] = db.missiles[i]
        /\ sess.tx.detailed = db.detailed
        /\ sess.tx.sc = db.sc
        /\ sess.tx.links = db.links
        /\ sess.tx.chars = db.chars
        /\ sess.tx.images = db.images

-----------------------------------------------------------------------------
(* C20 *)

\* the link rows of the store that hang on a structured-content row of missile m
LinksOfMissile(store, m) ==
    SelectSeq(store.links,
              LAMBDA l : \E j \in 1..Len(store.sc) :
                             store.sc[j].id = l.sc_id /\ store.sc[j].missile_id = m)

\* the link locators a DetailRecord's structured content implies, field by field
RECURSIVE ImpliedLinks(_, _)
ImpliedLinks(fields, i) ==
    IF i > Len(fields) THEN <<>>
    ELSE fields[i].links \o ImpliedLinks(fields, i + 1)

\* C20: every link row of the store belongs to a structured-content row of the
\* store, and after an update-mode run that imported one well-formed DetailRecord
\* for a stored missile the missile's link rows are those of that record
C20_LinksFollowReplace ==
    /\ \A i \in 1..Len(db.links) :
          \E j \in 1..Len(db.sc) : db.sc[j].id = db.links[i].sc_id
    /\ (/\ pc = "done" /\ update_mode
        /\ Len(hist) = 1 /\ hist[1].op = "detailed"
        /\ hist[1].errs = 0 /\ hist[1].mid > 0 /\ WellFormedEntry(hist[1].rec))
          => LET urls == LinksOfMissile(db, hist[1].mid)
             IN  [i \in 1..Len(urls) |-> urls[i].url]
                     = ImpliedLinks(hist[1].rec.body.sc.items, 1)

-----------------------------------------------------------------------------
(* C21 *)

\* C21: while import_detailed_missiles is between two records of its batch, the
\* missile of every earlier record that raised no error is in the committed store,
\* with its detailed-data row when the record had a readable body file
C21_EarlierRecordsCommitted ==
    pc = "detailed" =>
        \A i \in 1..Len(hist) :
            (hist[i].errs = 0 /\ hist[i].rec.body.file = "ok")
                => /\ ByUrl(db.missiles, hist[i].rec.url) > 0
                   /\ \E j \in 1..Len(db.detailed) :
                          db.detailed[j].missile_id = ByUrl(db.missiles, hist[i].rec.url)

-----------------------------------------------------------------------------
(* C22 *)

\* C22: whatever the order in which the generators of concurrently parsed listing
\* pages are resumed, a step that schedules a request for a listing locator finds the
\* locator in neither discovered_pages nor processed_pages and leaves it in
\* discovered_pages, and no step schedules a locator that was requested before
C22_TestAndInsertAtomic ==
    [][/\ \A l \in requested' \ requested :
             /\ l \notin discovered_pages /\ l \notin processed_pages
             /\ l \in discovered_pages'
       /\ dupRequested' = dupRequested]_vars

\* two generators are suspended at a yield, and one of them still has to test a
\* link that the other one admitted and requested in the meantime
C22_Witness ==
    /\ Cardinality(gens) = 2
    /\ \E g \in gens :
          /\ g.phase = "links"
          /\ \E l \in g.links : l \in discovered_pages /\ l \in requested
    /\ dupRequested = {}

-----------------------------------------------------------------------------
(* C23 *)

\* C23: a listing locator that has been parsed is in processed_pages and not in
\* discovered_pages: the two sets are disjoint in every reachable state
C23_DiscoveredVisitedDisjoint == discovered_pages \cap processed_pages = {}

-----------------------------------------------------------------------------
(* C24 *)

\* C24: when the crawl is over, no two records of the basic collection have the
\* same detail-page locator
C24_BasicLocatorsUnique ==
    CrawlDone =>
        \A i \in 1..Len(basic_items), j \in 1..Len(basic_items) :
            basic_items[i].detail_page_url = basic_items[j].detail_page_url => i = j

-----------------------------------------------------------------------------
(* C25 *)

\* C25: once data/missiles_basic.json has been written, every later step leaves its
\* records in place: the file stays, and what it held is a prefix of what it holds
C25_BasicFileAppendOnly ==
    [][basic_file # NoInt
          => /\ basic_file' # NoInt
             /\ Len(basic_file'[1]) >= Len(basic_file[1])
             /\ SubSeq(basic_file'[1], 1, Len(basic_file[1])) = basic_file[1]]_vars

-----------------------------------------------------------------------------
(* C26 *)

\* C26: the step that handles the response of a detail page without the content
\* container writes no body file and adds no index entry, keeps the basic records
\* emitted so far, and leaves every other scheduled request and every running
\* callback as it was; such a page never has a body file or an index entry
C26_MissingContainerAbortsOnePage ==
    [][\A u \in Urls :
          (~HasContent(u) /\ detail_fetches' = detail_fetches (+) SetToBag({u}))
              => /\ body_writes' = body_writes
                 /\ detailed_items' = detailed_items
                 /\ WritesFor(u) = 0 /\ EntriesFor(u) = 0
                 /\ basic_items' = basic_items
                 /\ pending' = pending /\ gens' = gens
                 /\ \E r \in BagToSet(detail_pending) :
                        r.url = u /\ detail_pending' = detail_pending (-) SetToBag({r})]_vars

\* the crawl is over and the spider closed: the page of /m/x2 was fetched and has
\* no body file and no index entry, its basic record is in the collection file, and
\* the page of /m/x1 has both
C26_Witness ==
    /\ ~spider_open
    /\ FetchesFor("/m/x2") = 1 /\ WritesFor("/m/x2") = 0 /\ EntriesFor("/m/x2") = 0
    /\ basic_file # NoInt
    /\ \E i \in 1..Len(basic_file[1]) : basic_file[1][i].detail_page_url = "/m/x2"
    /\ FetchesFor("/m/x1") = 1 /\ WritesFor("/m/x1") = 1
    /\ detailed_file # NoInt
    /\ \A i \in 1..Len(detailed_file[1]) : detailed_file[1][i].detail_page_url = "/m/x1"

-----------------------------------------------------------------------------
(* C27 *)

\* C27: in the committed store a missile's is_detailed flag is true exactly when the
\* missile has a detailed-data row
C27_FlagMatchesData ==
    \A i \in 1..Len(db.missiles) :
        db.missiles[i].is_detailed
            <=> \E j \in 1..Len(db.detailed) : db.detailed[j].missile_id = i

-----------------------------------------------------------------------------
(* C28 *)

\* C28: when an update-mode run whose only index entry names a missing body file
\* commits, the detailed-data, structured-content, characteristic and image rows
\* of the entry's missile are the ones the store held before the run
C28_MissingFileKeepsChildren ==
    [][(/\ pc = "detailed" /\ pc' = "done" /\ update_mode
        /\ Len(hist) = 1 /\ hist[1].rec.body.file = "missing")
          => LET m == ByUrl(db.missiles, hist[1].rec.url)
             IN  /\ Of(db'.detailed, m) = Of(db.detailed, m)
                 /\ Of(db'.sc, m) = Of(db.sc, m)
                 /\ Of(db'.chars, m) = Of(db.chars, m)
                 /\ Of(db'.images, m) = Of(db.images, m)]_vars

-----------------------------------------------------------------------------
(* C29 *)

\* C29: no two distinct listing locators parsed in one crawl were given the same
\* page ordinal
C29_OrdinalOneToOne ==
    \A a \in pageNumbers, b \in pageNumbers : a[2] = b[2] => a[1] = b[1]

-----------------------------------------------------------------------------
(* C30 *)

\* C30: under fair processing of scheduled requests the crawl reaches, and stays
\* in, a state where no listing request is scheduled, no callback is running, and
\* every admitted listing locator has been parsed or is one the site does not serve
C30_CrawlTerminates ==
    <>[](/\ pending = {} /\ gens = {} /\ detail_pending = EmptyBag
         /\ \A l \in discovered_pages : l \in processed_pages \/ ~Served(l))

\* the crawl ended after the start page and every served ?page=N were parsed and
\* a request for a locator the site does not serve was dropped
C30_Witness ==
    /\ ~spider_open
    /\ processed_pages = {Start} \cup {Loc(p) : p \in 0..MaxOrd}
    /\ \E l \in discovered_pages : ~Served(l)

====
